---- MODULE Spec2Model ----
(***************************************************************************)
(* XDR on a stdio stream (src/src/xdr_stdio.c): the handle set up by       *)
(* xdrstdio_create, the routines of its operation table, and the stdio     *)
(* stream and file they act on.                                            *)
(*                                                                         *)
(* The build is a parameter of the model: a long has host.longBytes bytes  *)
(* (4 or 8) and the host is little- or big-endian; u_int and int32_t have  *)
(* 32 bits and the offset of a stdio stream 64.  No integer is narrowed:   *)
(* every conversion of the code is computed at the C widths.               *)
(***************************************************************************)
EXTENDS Integers, Sequences, FiniteSets, TLC

(* ------------------------------ bounds -------------------------------- *)

\* Number of calls made through the handle in one behaviour.
MaxOps == 3

\* Longest block handed to get_bytes / put_bytes.
MaxLen == 2

(* ---------------------------- C constants ----------------------------- *)

\* sizeof(int32_t), the unit read and written by getlong / putlong.
SizeofInt32 == 4

\* The third argument of fseek in xdrstdio_setpos (SEEK_SET).
SeekSet == 0

XDR_ENCODE == "XDR_ENCODE"
XDR_DECODE == "XDR_DECODE"
NULL == "NULL"
\* The address of the caller's FILE object, stored in x_private.
FILEPTR == "FILE"

(* ------------------------ C integer arithmetic ------------------------ *)
(* A long whose memory is read or written bytewise (the argument of        *)
(* getlong and putlong) is kept as its bytes.  An integer that is only     *)
(* computed with (a stream offset, a position) is kept as a number to the  *)
(* base 2^16, least significant digit first: two digits for a 32-bit type, *)
(* and for a 64-bit type a third one that holds the bits from 32 up as a   *)
(* signed number.                                                          *)

Zeros(n) == [i \in 1..n |-> 0]

Reverse(s) == [i \in 1..Len(s) |-> s[Len(s) + 1 - i]]

\* The sign bit of a two's-complement value kept as bytes.
IsNeg(a) == a[Len(a)] >= 128

\* Conversion of a signed value kept as bytes to a wider signed type.
SignExtend(a, n) ==
    [i \in 1..n |-> IF i <= Len(a) THEN a[i] ELSE IF IsNeg(a) THEN 255 ELSE 0]

\* Object representation of a value on host h, and back.
MemOf(h, val) == IF h.bigEndian THEN Reverse(val) ELSE val
ValOf(h, mem) == IF h.bigEndian THEN Reverse(mem) ELSE mem

\* (u_int32_t) x for a long x: the low 32 bits.
CastU32(val) == SubSeq(val, 1, 4)

\* (long) u for an unsigned 32-bit u: the value is kept when long is wider,
\* the bit pattern is kept when long has 32 bits.
CastLong(h, u) == u \o Zeros(h.longBytes - 4)

\* htonl / ntohl: the bytes of the value are swapped on a little-endian host.
htonl(h, u) == IF h.bigEndian THEN u ELSE Reverse(u)
ntohl(h, u) == IF h.bigEndian THEN u ELSE Reverse(u)

\* Offset 0, and the offset of the small natural number k.
OffZero == <<0, 0, 0>>
OffOf(k) == <<k, 0, 0>>

\* a + b for two 64-bit offsets.
OffPlus(a, b) ==
    LET d1 == a[1] + b[1]
        d2 == a[2] + b[2] + (d1 \div 65536)
    IN  <<d1 % 65536, d2 % 65536, a[3] + b[3] + (d2 \div 65536)>>

OffAdd(o, k) == OffPlus(o, OffOf(k))

\* a < b for two 64-bit offsets.
OffLess(a, b) ==
    \/ a[3] < b[3]
    \/ a[3] = b[3] /\ a[2] < b[2]
    \/ a[3] = b[3] /\ a[2] = b[2] /\ a[1] < b[1]

OffMax(a, b) == IF OffLess(a, b) THEN b ELSE a

\* The value -1 of a long used as a position.
MinusOne(h) == IF h.longBytes = 8 THEN <<65535, 65535, -1>> ELSE <<65535, 65535>>

\* A long widened to the 64-bit offset type (sign-extended).
LongToOff(l) ==
    IF Len(l) = 3 THEN l ELSE l \o <<IF l[2] >= 32768 THEN -1 ELSE 0>>

\* (u_int) l for a long l: the low 32 bits.
CastUInt(l) == SubSeq(l, 1, 2)

\* (long) pos for a u_int pos.
CastPosLong(h, pos) == IF h.longBytes = 8 THEN pos \o <<0>> ELSE pos

(* ------------------------------- stdio -------------------------------- *)
(* fp is the FILE object: rd/wr say how it was opened, seekable whether    *)
(* the descriptor has an offset, unbuf whether it is unbuffered; pos is    *)
(* the stream position, wbuf the bytes written but not yet transferred,    *)
(* which belong at wstart; lastio is the direction of the last transfer.   *)
(* dk is the underlying file: size and the bytes at the offsets that were  *)
(* written (a hole reads as 0).                                            *)

DiskByte(dk, o) == IF o \in DOMAIN dk.data THEN dk.data[o] ELSE 0

DiskWrite(dk, o, bytes) ==
    LET at == {OffAdd(o, i - 1) : i \in 1..Len(bytes)}
    IN  [data |-> [x \in DOMAIN dk.data \cup at |->
                      IF x \in at THEN bytes[((x[1] - o[1]) % 65536) + 1]
                      ELSE dk.data[x]],
         size |-> OffMax(dk.size, OffAdd(o, Len(bytes)))]

\* The bytes of the file at o .. o+n-1.
DiskRead(dk, o, n) == [i \in 1..n |-> DiskByte(dk, OffAdd(o, i - 1))]

\* fflush: transfers the buffered output.  On a stream whose last operation
\* was input nothing is written and the stream position is kept.
fflush(fp, dk) ==
    IF fp.open /\ fp.wr /\ fp.wbuf # <<>>
    THEN [fp |-> [fp EXCEPT !.wbuf = <<>>, !.lastio = "none"],
          dk |-> DiskWrite(dk, fp.wstart, fp.wbuf)]
    ELSE [fp |-> IF fp.lastio = "write" THEN [fp EXCEPT !.lastio = "none"] ELSE fp,
          dk |-> dk]

\* fread(ptr, size, 1, fp): got are the bytes stored at ptr, n the number of
\* complete items; a short item is consumed and stored but not counted, and
\* an item of size 0 is not read at all.
fread(fp, dk, size) ==
    IF ~(fp.open /\ fp.rd) \/ size = 0
    THEN [n |-> 0, got |-> <<>>, fp |-> fp]
    ELSE LET k == Cardinality({i \in 0..(size - 1) :
                                  OffLess(OffAdd(fp.pos, i), dk.size)})
         IN  [n |-> IF k = size THEN 1 ELSE 0,
              got |-> DiskRead(dk, fp.pos, k),
              fp |-> [fp EXCEPT !.pos = OffAdd(fp.pos, k),
                                !.lastio = IF k = size THEN "read" ELSE "readeof"]]

\* fwrite(ptr, size, 1, fp) of the given bytes.
fwrite(fp, dk, bytes) ==
    IF ~(fp.open /\ fp.wr) \/ bytes = <<>>
    THEN [n |-> 0, fp |-> fp, dk |-> dk]
    ELSE LET start == IF fp.wbuf = <<>> THEN fp.pos ELSE fp.wstart
             buffered == [fp EXCEPT !.wbuf = fp.wbuf \o bytes,
                                    !.wstart = start,
                                    !.pos = OffAdd(fp.pos, Len(bytes)),
                                    !.lastio = "write"]
         IN  IF fp.unbuf
             THEN [n |-> 1,
                   fp |-> [buffered EXCEPT !.wbuf = <<>>],
                   dk |-> DiskWrite(dk, start, buffered.wbuf)]
             ELSE [n |-> 1, fp |-> buffered, dk |-> dk]

\* ftell: the position as a long, -1 when the stream has no offset or the
\* offset is not representable in a long (EOVERFLOW).
ftell(h, fp) ==
    IF ~(fp.open /\ fp.seekable) THEN MinusOne(h)
    ELSE IF h.longBytes = 8 THEN fp.pos
    ELSE IF fp.pos[3] = 0 /\ fp.pos[2] < 32768 THEN SubSeq(fp.pos, 1, 2)
    ELSE MinusOne(h)

\* fseek(fp, off, whence) for whence 0 (from the start) and 1 (from the
\* current position): flushes output, fails on a negative target.
fseek(fp, dk, off, whence) ==
    LET target == IF whence = 0 THEN LongToOff(off)
                  ELSE OffPlus(fp.pos, LongToOff(off))
        fl == fflush(fp, dk)
    IN  IF ~(fp.open /\ fp.seekable) \/ target[3] < 0
        THEN [ret |-> -1, fp |-> fp, dk |-> dk]
        ELSE [ret |-> 0,
              fp |-> [fl.fp EXCEPT !.pos = target, !.lastio = "none"],
              dk |-> fl.dk]

\* The memory at ptr after the given bytes were stored at its start.
Store(mem, bytes) ==
    [i \in 1..Len(mem) |-> IF i <= Len(bytes) THEN bytes[i] ELSE mem[i]]

(* ------------------------- src/src/xdr_stdio.c ------------------------ *)
(* Every routine takes the handle xdrs and the FILE object fp that its     *)
(* x_private points to, with the underlying file dk, and yields its return *)
(* value with the objects it leaves behind.                                *)

\* The operation table: the routine installed in each slot.
xdrstdio_ops ==
    [x_getlong  |-> "xdrstdio_getlong",
     x_putlong  |-> "xdrstdio_putlong",
     x_getbytes |-> "xdrstdio_getbytes",
     x_putbytes |-> "xdrstdio_putbytes",
     x_getpostn |-> "xdrstdio_getpos",
     x_setpostn |-> "xdrstdio_setpos",
     x_inline   |-> "xdrstdio_inline",
     x_destroy  |-> "xdrstdio_destroy",
     x_control  |-> "xdrstdio_noop",
     x_getbufs  |-> "xdrstdio_noop",
     x_putbufs  |-> "xdrstdio_noop"]

\* xdrstdio_create without the assignment to x_handy.
xdrstdio_create_nohandy(xdrs, file, op) ==
    [xdrs EXCEPT !.x_op = op,
                 !.x_ops = xdrstdio_ops,
                 !.x_lib0 = NULL,
                 !.x_lib1 = NULL,
                 !.x_public = NULL,
                 !.x_private = file,
                 !.x_base = 0]

xdrstdio_create(xdrs, file, op) ==
    [xdrs EXCEPT !.x_op = op,
                 !.x_ops = xdrstdio_ops,
                 !.x_lib0 = NULL,
                 !.x_lib1 = NULL,
                 !.x_public = NULL,
                 !.x_private = file,
                 !.x_handy = 0,
                 !.x_base = 0]

\* xdrstdio_destroy without the fflush.
xdrstdio_destroy_noflush(xdrs, fp, dk) == [fp |-> fp, dk |-> dk]

xdrstdio_destroy(xdrs, fp, dk) == fflush(fp, dk)

\* xdrstdio_getlong without the test of what fread returned.
xdrstdio_getlong_unchecked(h, xdrs, fp, dk, lp) ==
    LET r == fread(fp, dk, SizeofInt32)
        stored == Store(lp, r.got)
    IN  [ret |-> TRUE,
         lp |-> MemOf(h, CastLong(h, ntohl(h, CastU32(ValOf(h, stored))))),
         fp |-> r.fp, dk |-> dk]

\* lp is the memory of the caller's long before the call, and after it in
\* the result.
xdrstdio_getlong(h, xdrs, fp, dk, lp) ==
    LET r == fread(fp, dk, SizeofInt32)
        stored == Store(lp, r.got)
    IN  IF r.n # 1
        THEN [ret |-> FALSE, lp |-> stored, fp |-> r.fp, dk |-> dk]
        ELSE [ret |-> TRUE,
              lp |-> MemOf(h, CastLong(h, ntohl(h, CastU32(ValOf(h, stored))))),
              fp |-> r.fp, dk |-> dk]

\* xdrstdio_putlong behind a test of the mode the handle was created in.
xdrstdio_putlong_guarded(h, xdrs, fp, dk, lp) ==
    LET mycopy == MemOf(h, CastLong(h, htonl(h, CastU32(ValOf(h, lp)))))
        out == SubSeq(mycopy, 1, SizeofInt32)
        w == fwrite(fp, dk, out)
    IN  IF xdrs.x_op # XDR_ENCODE
        THEN [ret |-> FALSE, fp |-> fp, dk |-> dk, out |-> <<>>]
        ELSE [ret |-> w.n = 1, fp |-> w.fp, dk |-> w.dk, out |-> out]

\* out are the bytes of mycopy that fwrite is given.
xdrstdio_putlong(h, xdrs, fp, dk, lp) ==
    LET mycopy == MemOf(h, CastLong(h, htonl(h, CastU32(ValOf(h, lp)))))
        w == fwrite(fp, dk, SubSeq(mycopy, 1, SizeofInt32))
        out == SubSeq(mycopy, 1, SizeofInt32)
    IN  IF w.n # 1
        THEN [ret |-> FALSE, fp |-> w.fp, dk |-> w.dk, out |-> out]
        ELSE [ret |-> TRUE, fp |-> w.fp, dk |-> w.dk, out |-> out]

\* xdrstdio_getbytes without the test of len.
xdrstdio_getbytes_nolen(xdrs, fp, dk, addr, len) ==
    LET r == fread(fp, dk, len)
    IN  [ret |-> ~(r.n # 1), addr |-> Store(addr, r.got), fp |-> r.fp, dk |-> dk]

\* xdrstdio_getbytes with the fwrite of xdrstdio_putbytes in it.
xdrstdio_getbytes_fwrite(xdrs, fp, dk, addr, len) ==
    IF len # 0
    THEN LET w == fwrite(fp, dk, SubSeq(addr, 1, len))
         IN  [ret |-> ~(w.n # 1), addr |-> addr, fp |-> w.fp, dk |-> w.dk]
    ELSE [ret |-> TRUE, addr |-> addr, fp |-> fp, dk |-> dk]

\* addr is the memory of the caller's buffer before the call, and after it
\* in the result.
xdrstdio_getbytes(xdrs, fp, dk, addr, len) ==
    IF len # 0
    THEN LET r == fread(fp, dk, len)
         IN  [ret |-> ~(r.n # 1), addr |-> Store(addr, r.got), fp |-> r.fp, dk |-> dk]
    ELSE [ret |-> TRUE, addr |-> addr, fp |-> fp, dk |-> dk]

xdrstdio_putbytes(xdrs, fp, dk, addr, len) ==
    IF len # 0
    THEN LET w == fwrite(fp, dk, SubSeq(addr, 1, len))
         IN  [ret |-> ~(w.n # 1), fp |-> w.fp, dk |-> w.dk]
    ELSE [ret |-> TRUE, fp |-> fp, dk |-> dk]

xdrstdio_getpos(h, xdrs, fp) == CastUInt(ftell(h, fp))

\* xdrstdio_setpos seeking from the current position (whence 1).
xdrstdio_setpos_relative(h, xdrs, fp, dk, pos) ==
    LET s == fseek(fp, dk, CastPosLong(h, pos), 1)
    IN  [ret |-> ~(s.ret < 0), fp |-> s.fp, dk |-> s.dk]

xdrstdio_setpos(h, xdrs, fp, dk, pos) ==
    LET s == fseek(fp, dk, CastPosLong(h, pos), SeekSet)
    IN  [ret |-> ~(s.ret < 0), fp |-> s.fp, dk |-> s.dk]

\* xdrstdio_inline handing out the private area, as a memory stream does.
xdrstdio_inline_private(xdrs, len) == xdrs.x_private

xdrstdio_inline(xdrs, len) == NULL

xdrstdio_noop == FALSE

(* ------------------------------- state -------------------------------- *)

VARIABLES
    host,     \* the build: [longBytes, bigEndian]
    xdrs,     \* the XDR handle
    file,     \* the caller's FILE object, which xdrs.x_private points to
    disk,     \* the underlying file
    last,     \* the most recent call through the handle, with what it returned
    made,     \* the arguments xdrstdio_create was called with
    seen,     \* what get_pos has returned so far: [pos, off, ok], the position
              \* returned, the stream offset then, and whether ftell reported it
    put0,     \* the value put_long wrote at offset 0 of an empty file, if any
    written,  \* the bytes handed to successful put calls, as a file image
    calls     \* number of calls the caller still makes

vars == <<host, xdrs, file, disk, last, made, seen, put0, written, calls>>

Hosts == [longBytes : {4, 8}, bigEndian : BOOLEAN]

\* The values a caller passes to put_long.
Vals == {1, -1, 16909060}

\* int32 value v as its four bytes, least significant first.
Int32Digits(v) ==
    <<v % 256, (v \div 256) % 256, (v \div 65536) % 256, (v \div 16777216) % 256>>

\* The memory of a long that holds v on host h.
LongOf(h, v) == MemOf(h, SignExtend(Int32Digits(v), h.longBytes))

\* What the caller's long may hold before get_long stores into it.
OldLongs(h) == {[i \in 1..h.longBytes |-> 0], [i \in 1..h.longBytes |-> 170]}

\* The caller's buffer before get_bytes, and the block given to put_bytes.
OldBuf == [i \in 1..MaxLen |-> 170]
OutBuf == [i \in 1..MaxLen |-> 6 + i]

\* Positions a caller passes to set_pos besides those get_pos returned:
\* 0, 2^31 - 1 and 2^32 - 1.
PosArgs == {<<0, 0>>, <<65535, 32767>>, <<65535, 65535>>}

EmptyDisk == [data |-> <<>>, size |-> OffZero]

\* Files the stream may be opened on: an empty one and one of six bytes.
Disks == {EmptyDisk, DiskWrite(EmptyDisk, OffZero, <<255, 255, 255, 254, 0, 1>>)}

\* The FILE objects a caller may hand to xdrstdio_create: opened for reading,
\* writing or update; a stream without offset (a pipe) is read only, an
\* unbuffered one write only.
Files ==
    {f \in [open : {TRUE}, rd : BOOLEAN, wr : BOOLEAN, seekable : BOOLEAN,
            unbuf : BOOLEAN, pos : {OffZero}, wstart : {OffZero},
            wbuf : {<<>>}, lastio : {"none"}] :
        /\ f.rd \/ f.wr
        /\ ~f.seekable => ~f.wr
        /\ f.unbuf => ~f.rd}

\* A handle before xdrstdio_create: its fields hold whatever was in memory.
Uninitialized ==
    [x_op |-> "garbage", x_ops |-> "garbage", x_lib0 |-> "garbage",
     x_lib1 |-> "garbage", x_public |-> "garbage", x_private |-> "garbage",
     x_handy |-> 170, x_base |-> 170]

\* last: the call (op), its arguments (v, len, pos), its results (ret, pos,
\* lp, buf, ptr), the bytes it handed to fwrite (out), the stream position
\* (pos0) and the number of buffered bytes (nbuf) before it; for set_pos
\* whether get_pos had returned the argument (was) and ftell had reported it
\* (wasOk); for get_pos the same of the call before it (pop, ppos, pwas,
\* pwasOk).
NoCall ==
    [op |-> "none", ret |-> FALSE, v |-> 0, len |-> 0, pos |-> <<0, 0>>,
     lp |-> <<>>, buf |-> <<>>, out |-> <<>>, ptr |-> NULL, pos0 |-> OffZero, nbuf |-> 0,
     was |-> FALSE, wasOk |-> FALSE,
     pop |-> "none", ppos |-> <<0, 0>>, pwas |-> FALSE, pwasOk |-> FALSE]

Created(hs, fs, ds, ops, n) ==
    /\ host \in hs
    /\ file \in fs
    /\ disk \in ds
    \* opening a file for writing only truncates it; a pipe has data to read
    /\ (file.wr /\ ~file.rd) => disk = EmptyDisk
    /\ ~file.seekable => disk # EmptyDisk
    /\ \E op \in ops :
          /\ xdrs = xdrstdio_create(Uninitialized, FILEPTR, op)
          /\ made = [op |-> op, file |-> FILEPTR]
    /\ last = NoCall
    /\ seen = {}
    /\ put0 = {}
    /\ written = EmptyDisk
    /\ calls = n

Init == Created(Hosts, Files, Disks, {XDR_ENCODE, XDR_DECODE}, MaxOps)

(* ISO C 7.21.5.3: on an update stream output is not directly followed by  *)
(* input without fflush or a positioning call, nor input by output without *)
(* a positioning call unless the input met end-of-file.  Callers keep to   *)
(* this.                                                                   *)
MayRead(fp) == ~(fp.rd /\ fp.wr /\ fp.lastio = "write")
MayWrite(fp) == ~(fp.rd /\ fp.wr /\ fp.lastio = "read")

\* put0 after a successful write of n bytes at offset o.
Overwritten(p, o, n) ==
    IF n > 0 /\ OffLess(o, OffOf(SizeofInt32)) THEN {} ELSE p

(* ------------------------------ actions ------------------------------- *)

GetLong ==
    /\ calls > 0
    /\ MayRead(file)
    /\ \E old \in OldLongs(host) :
          LET r == xdrstdio_getlong(host, xdrs, file, disk, old)
          IN  /\ file' = r.fp
              /\ disk' = r.dk
              /\ last' = [NoCall EXCEPT !.op = "getlong", !.ret = r.ret,
                                        !.lp = r.lp, !.pos0 = file.pos]
    /\ calls' = calls - 1
    /\ UNCHANGED <<host, xdrs, made, seen, put0, written>>

PutLong ==
    /\ calls > 0
    /\ MayWrite(file)
    /\ \E v \in Vals :
          LET r == xdrstdio_putlong(host, xdrs, file, disk, LongOf(host, v))
              fresh == disk.size = OffZero /\ file.wbuf = <<>> /\ file.pos = OffZero
          IN  /\ file' = r.fp
              /\ disk' = r.dk
              /\ last' = [NoCall EXCEPT !.op = "putlong", !.ret = r.ret, !.v = v,
                                        !.out = r.out,
                                        !.pos0 = file.pos, !.nbuf = Len(file.wbuf)]
              /\ put0' = IF r.ret /\ fresh THEN {v}
                         ELSE IF r.ret THEN Overwritten(put0, file.pos, SizeofInt32)
                         ELSE put0
              /\ written' = IF r.ret
                            THEN DiskWrite(written, file.pos, r.out)
                            ELSE written
    /\ calls' = calls - 1
    /\ UNCHANGED <<host, xdrs, made, seen>>

GetBytes ==
    /\ calls > 0
    /\ \E len \in 0..MaxLen :
          /\ len = 0 \/ MayRead(file)
          /\ LET r == xdrstdio_getbytes(xdrs, file, disk, OldBuf, len)
             IN  /\ file' = r.fp
                 /\ disk' = r.dk
                 /\ last' = [NoCall EXCEPT !.op = "getbytes", !.ret = r.ret,
                                           !.len = len, !.buf = r.addr,
                                           !.pos0 = file.pos]
    /\ calls' = calls - 1
    /\ UNCHANGED <<host, xdrs, made, seen, put0, written>>

PutBytes ==
    /\ calls > 0
    /\ \E len \in 0..MaxLen :
          /\ len = 0 \/ MayWrite(file)
          /\ LET r == xdrstdio_putbytes(xdrs, file, disk, OutBuf, len)
             IN  /\ file' = r.fp
                 /\ disk' = r.dk
                 /\ last' = [NoCall EXCEPT !.op = "putbytes", !.ret = r.ret,
                                           !.len = len, !.buf = OutBuf,
                                           !.out = SubSeq(OutBuf, 1, len),
                                           !.pos0 = file.pos,
                                           !.nbuf = Len(file.wbuf)]
                 /\ put0' = IF r.ret THEN Overwritten(put0, file.pos, len) ELSE put0
                 /\ written' = IF r.ret /\ len > 0
                               THEN DiskWrite(written, file.pos, SubSeq(OutBuf, 1, len))
                               ELSE written
    /\ calls' = calls - 1
    /\ UNCHANGED <<host, xdrs, made, seen>>

GetPos ==
    /\ calls > 0
    /\ LET p == xdrstdio_getpos(host, xdrs, file)
       IN  /\ last' = [NoCall EXCEPT !.op = "getpos", !.pos = p, !.pos0 = file.pos,
                                     !.pop = last.op, !.ppos = last.pos,
                                     !.pwas = last.was, !.pwasOk = last.wasOk]
           /\ seen' = seen \cup {[pos |-> p, off |-> file.pos,
                                  ok |-> ftell(host, file) # MinusOne(host)]}
    /\ calls' = calls - 1
    /\ UNCHANGED <<host, xdrs, file, disk, made, put0, written>>

SetPos ==
    /\ calls > 0
    /\ \E p \in PosArgs \cup {e.pos : e \in seen} :
          LET r == xdrstdio_setpos(host, xdrs, file, disk, p)
          IN  /\ file' = r.fp
              /\ disk' = r.dk
              /\ last' = [NoCall EXCEPT !.op = "setpos", !.ret = r.ret, !.pos = p,
                                        !.pos0 = file.pos,
                                        !.was = \E e \in seen : e.pos = p,
                                        !.wasOk = \E e \in seen : e.pos = p /\ e.ok]
    /\ calls' = calls - 1
    /\ UNCHANGED <<host, xdrs, made, seen, put0, written>>

Inline ==
    /\ calls > 0
    /\ \E len \in {0, SizeofInt32} :
          last' = [NoCall EXCEPT !.op = "inline", !.len = len,
                                 !.ptr = xdrstdio_inline(xdrs, len),
                                 !.pos0 = file.pos]
    /\ calls' = calls - 1
    /\ UNCHANGED <<host, xdrs, file, disk, made, seen, put0, written>>

\* x_control, x_getbufs and x_putbufs, each called through its slot.
Extension ==
    /\ calls > 0
    /\ \E slot \in {"x_control", "x_getbufs", "x_putbufs"} :
          /\ xdrs.x_ops[slot] = "xdrstdio_noop"
          /\ last' = [NoCall EXCEPT !.op = slot, !.ret = xdrstdio_noop,
                                    !.pos0 = file.pos]
    /\ calls' = calls - 1
    /\ UNCHANGED <<host, xdrs, file, disk, made, seen, put0, written>>

Destroy ==
    /\ calls > 0
    /\ LET r == xdrstdio_destroy(xdrs, file, disk)
       IN  /\ file' = r.fp
           /\ disk' = r.dk
           /\ last' = [NoCall EXCEPT !.op = "destroy", !.pos0 = file.pos,
                                     !.nbuf = Len(file.wbuf)]
    /\ calls' = calls - 1
    /\ UNCHANGED <<host, xdrs, made, seen, put0, written>>

Next ==
    \/ GetLong
    \/ PutLong
    \/ GetBytes
    \/ PutBytes
    \/ GetPos
    \/ SetPos
    \/ Inline
    \/ Extension
    \/ Destroy

Spec == Init /\ [][Next]_vars

(* A caller that only positions an ENCODE stream and writes blocks, for     *)
(* longer, on the little-endian hosts.                                     *)

\* Number of calls made through the handle in one such behaviour.
MaxSeekOps == 6

InitSeek ==
    Created({h \in Hosts : ~h.bigEndian},
            {f \in Files : (f.rd /\ f.wr) \/ ~f.seekable},
            Disks \ {EmptyDisk}, {XDR_ENCODE}, MaxSeekOps)

NextSeek ==
    \/ GetPos
    \/ SetPos
    \/ PutBytes

SpecSeek == InitSeek /\ [][NextSeek]_vars

(* ------------------------------- claims ------------------------------- *)

\* At least n bytes lie between offset p and the end of a file of this size.
Remain(p, size, n) == ~OffLess(size, OffAdd(p, n))

\* The call was a get on an ENCODE stream or a put on a DECODE stream.
Mismatched ==
    \/ xdrs.x_op = XDR_ENCODE /\ last.op \in {"getlong", "getbytes"}
    \/ xdrs.x_op = XDR_DECODE /\ last.op \in {"putlong", "putbytes"}

\* The number of bytes the call asks stdio to transfer.
Unit == IF last.op \in {"getlong", "putlong"} THEN SizeofInt32 ELSE last.len

\* C1: a successful put_long(v) into an empty file followed by a successful
\* get_long of those four bytes from offset 0 yields v as a long of the host,
\* on every host.
C1_RoundTrip ==
    (last.op = "getlong" /\ last.ret /\ last.pos0 = OffZero)
        => \A v \in put0 : last.lp = LongOf(host, v)

\* C2: a successful put_long(v) moves the position by exactly 4 bytes and
\* the bytes it writes are the big-endian encoding of the low 32 bits of v,
\* most significant byte first, on every host.
C2_WireFormat ==
    (last.op = "putlong" /\ last.ret)
        => /\ file.pos = OffAdd(last.pos0, 4)
           /\ last.out = Reverse(Int32Digits(last.v))
           /\ DiskRead(fflush(file, disk).dk, last.pos0, 4) = last.out

\* C3: after destroy on an ENCODE stream every byte handed to a successful
\* put_long or put_bytes is in the underlying file, none is left in the
\* stdio buffer, and the FILE is still open.
C3_DestroyFlushes ==
    (last.op = "destroy" /\ xdrs.x_op = XDR_ENCODE)
        => /\ file.open
           /\ file.wbuf = <<>>
           /\ \A o \in DOMAIN written.data : DiskByte(disk, o) = written.data[o]

\* C3 witness: destroy on an ENCODE stream found put bytes in the buffer.
C3_Witness ==
    /\ last.op = "destroy"
    /\ xdrs.x_op = XDR_ENCODE
    /\ last.nbuf > 0
    /\ DOMAIN written.data # {}
    /\ file.open

\* C4: get_long with fewer than 4 bytes left and get_bytes(len > 0) with
\* fewer than len bytes left return FALSE, and no get or put returns TRUE
\* unless its whole unit was transferred.
C4_ShortIoFails ==
    /\ (last.op = "getlong" /\ ~Remain(last.pos0, disk.size, SizeofInt32))
          => ~last.ret
    /\ (last.op = "getbytes" /\ last.len > 0 /\ ~Remain(last.pos0, disk.size, last.len))
          => ~last.ret
    /\ (last.op \in {"getlong", "putlong", "getbytes", "putbytes"} /\ last.ret)
          => file.pos = OffAdd(last.pos0, Unit)
    /\ (last.op \in {"putlong", "putbytes"} /\ last.ret)
          => DiskRead(fflush(file, disk).dk, last.pos0, Unit) = last.out

\* C4 witness: a get_long that met the end of the file after two of its four
\* bytes, and reported failure.
C4_Witness ==
    /\ last.op = "getlong"
    /\ ~last.ret
    /\ file.pos = OffAdd(last.pos0, 2)

\* C5 as claimed: set_pos(p) followed immediately by get_pos() returns p for
\* every p that get_pos returned before, also the p it returned when ftell
\* failed.
C5_PositionRoundTrip ==
    (last.op = "getpos" /\ last.pop = "setpos" /\ last.pwas)
        => last.pos = last.ppos

\* C5 amended: set_pos(p) followed immediately by get_pos() returns p for
\* every p that get_pos returned before from an offset that ftell reported,
\* also when p is that offset narrowed to 32 bits.
C5_PositionRoundTripReported ==
    (last.op = "getpos" /\ last.pop = "setpos" /\ last.pwasOk)
        => last.pos = last.ppos

\* C5 witness: the round trip of a position that get_pos had narrowed from an
\* offset of 2^32 or more.
C5_Witness ==
    /\ last.op = "getpos"
    /\ last.pop = "setpos"
    /\ last.pwasOk
    /\ last.pos = last.ppos
    /\ \E e \in seen : e.pos = last.ppos /\ e.ok /\ e.off[3] > 0

\* C6: get_bytes(buf, 0) and put_bytes(buf, 0) return TRUE and leave the
\* FILE, the underlying file and the buffer as they were.
C6_ZeroLengthNoOp ==
    [][(calls' # calls /\ last'.op \in {"getbytes", "putbytes"} /\ last'.len = 0)
          => /\ last'.ret
             /\ file' = file
             /\ disk' = disk
             /\ last'.op = "getbytes" => last'.buf = OldBuf]_vars

\* C6 witness: a zero-length get_bytes right after a read that failed at the
\* end of the file.
C6_Witness ==
    /\ last.op = "getbytes"
    /\ last.len = 0
    /\ last.ret
    /\ file.lastio = "readeof"

\* C7: on a DECODE stream no get_long and no get_bytes writes: the underlying
\* file and the output buffer are as before the call.
C7_ModeIsolation ==
    [][(calls' # calls /\ xdrs.x_op = XDR_DECODE
           /\ last'.op \in {"getlong", "getbytes"})
          => /\ disk' = disk
             /\ file'.wbuf = file.wbuf]_vars

\* C7 witness: a second get in a row that read bytes on a DECODE stream whose
\* FILE is open for writing too.
C7_Witness ==
    /\ xdrs.x_op = XDR_DECODE
    /\ last.op = "getbytes"
    /\ last.len > 0
    /\ last.ret
    /\ file.wr
    /\ last.pos0 # OffZero

\* C8: inline_access returns NULL for every len, the three extension slots
\* return FALSE, and none of them changes the FILE, the underlying file or
\* the handle.
C8_Unsupported ==
    [][(calls' # calls
           /\ last'.op \in {"inline", "x_control", "x_getbufs", "x_putbufs"})
          => /\ last'.op = "inline" => last'.ptr = NULL
             /\ last'.op # "inline" => ~last'.ret
             /\ file' = file
             /\ disk' = disk
             /\ xdrs' = xdrs]_vars

\* C8 witness: inline_access(4) declined on a stream that has moved.
C8_Witness ==
    /\ last.op = "inline"
    /\ last.len = SizeofInt32
    /\ last.ptr = NULL
    /\ file.pos # OffZero

\* C9: the handle holds the mode and the FILE it was created with, the
\* operation table, and zero / NULL in every other field, after any calls.
C9_HandleImmutable ==
    xdrs = [x_op |-> made.op, x_ops |-> xdrstdio_ops, x_lib0 |-> NULL,
            x_lib1 |-> NULL, x_public |-> NULL, x_private |-> made.file,
            x_handy |-> 0, x_base |-> 0]

\* C9 witness: the last of the calls was destroy, after a put.
C9_Witness ==
    /\ last.op = "destroy"
    /\ calls = 0
    /\ DOMAIN written.data # {}

\* C10 as claimed: a get on an ENCODE stream and a put on a DECODE stream
\* return FALSE and transfer nothing.
C10_ModeGuard ==
    Mismatched => (~last.ret /\ file.pos = last.pos0)

\* C10 amended: the backend does not look at the mode.  A mismatched call
\* fails without a transfer only when the FILE is not open for that
\* direction and the unit is not empty; on a FILE open for it a put writes
\* its unit and returns TRUE, a get returns TRUE exactly when the unit was
\* left to read, and a zero-length call returns TRUE.
C10_NoModeGuard ==
    Mismatched =>
        /\ (Unit = 0) => last.ret
        /\ (Unit > 0 /\ last.op \in {"putlong", "putbytes"} /\ ~file.wr)
              => (~last.ret /\ file.pos = last.pos0)
        /\ (Unit > 0 /\ last.op \in {"getlong", "getbytes"} /\ ~file.rd)
              => (~last.ret /\ file.pos = last.pos0)
        /\ (Unit > 0 /\ last.op \in {"putlong", "putbytes"} /\ file.wr)
              => /\ last.ret
                 /\ file.pos = OffAdd(last.pos0, Unit)
                 /\ DiskRead(fflush(file, disk).dk, last.pos0, Unit) = last.out
        /\ (Unit > 0 /\ last.op \in {"getlong", "getbytes"} /\ file.rd)
              => last.ret = Remain(last.pos0, disk.size, Unit)

\* C10 witness: put_long on a DECODE stream returned TRUE and wrote.
C10_Witness ==
    /\ xdrs.x_op = XDR_DECODE
    /\ last.op = "putlong"
    /\ last.ret
    /\ file.pos = OffAdd(last.pos0, SizeofInt32)
====
